---------------------------- MODULE Spec2Model ----------------------------
(***************************************************************************)
(* A model of src/hash_table.c: a string-keyed hash table with separate    *)
(* chaining.  The heap is explicit: KeyValuePair nodes and strdup'ed key   *)
(* strings live at addresses, chains are linked through `next` pointers,   *)
(* and every malloc/free the code performs is recorded for the call that   *)
(* made it.  The data model is LP64: unsigned long and size_t are 64 bits, *)
(* int is 32 bits.                                                         *)
(***************************************************************************)
EXTENDS Integers, Sequences, FiniteSets

(***************************************************************************)
(* Bounds of the model.                                                    *)
(***************************************************************************)
\* Number of addresses the heap offers for KeyValuePair nodes, and for
\* key strings: malloc must fail once they are all taken.
MaxNodes == 3
\* Capacities handed to createHashTable range over -1..MaxCap.
MaxCap == 2
\* Longest key handed to hash and getIndex on their own (SpecHash): from
\* eleven bytes on the accumulator exceeds 2^64 and wraps.
MaxKeyLen == 11

NULL == 0

NodeAddrs == 1..MaxNodes
StrAddrs == 1..MaxNodes

\* The keys the callers use, as the bytes of the C strings:
\* "key1", "key2", "key3" (the keys of the usage example).
Keys == { <<107, 101, 121, 49>>, <<107, 101, 121, 50>>,
          <<107, 101, 121, 51>> }

\* The value pointers the callers store: NULL and the addresses of two
\* caller-owned objects.
Vals == {NULL, 1, 2}

Capacities == -1..MaxCap

VARIABLES
    ht,         \* the caller's handle: "null", "live" or "dangling"
    capacity,   \* ht->capacity
    array,      \* ht->array: [0..capacity-1 -> node address or NULL]
    size,       \* ht->size
    nodes,      \* heap of KeyValuePair: address -> [key, value, next]
    strs,       \* heap of key strings: address -> bytes
    liveNodes,  \* node addresses malloc'ed and not yet freed
    liveStrs,   \* string addresses malloc'ed and not yet freed
    blocks,     \* which of the "table" and "array" blocks are live
    call,       \* the last call: [op, key, value, cap]
    ret,        \* what the last call returned (bool as 0/1, pointers)
    visited,    \* loop iterations of the last call's chain scan
    allocLog,   \* blocks the last call obtained, in order
    freeLog,    \* blocks the last call passed to free(), in order
    fault,      \* "none", or the undefined behaviour the process ran into
    shadow,     \* history: key -> value of its last successful insert
    pure,       \* history: no delete and no insert of a stored key since
                \* create
    nIns        \* history: successful inserts since create, while pure

tableVars == <<ht, capacity, array, size, nodes, strs, liveNodes, liveStrs,
               blocks>>
callVars == <<call, ret, visited, allocLog, freeLog, fault>>
histVars == <<shadow, pure, nIns>>
vars == <<tableVars, callVars, histVars>>

(***************************************************************************)
(* 64-bit unsigned arithmetic, as four 16-bit limbs, least significant     *)
(* first (the model checker's integers are 32 bits).  They are functions,  *)
(* whose arguments are evaluated once.                                     *)
(***************************************************************************)
Limb == 2^16

\* The values of an unsigned long.
UL == [1..4 -> 0..(Limb - 1)]

\* x * 33 mod 2^64, which is what ((x << 5) + x) computes.
Times33[x \in UL] ==
    LET t0 == x[1] * 33
        t1 == x[2] * 33 + (t0 \div Limb)
        t2 == x[3] * 33 + (t1 \div Limb)
        t3 == x[4] * 33 + (t2 \div Limb)
    IN <<t0 % Limb, t1 % Limb, t2 % Limb, t3 % Limb>>

\* The int c converted to unsigned long: sign-extended to 64 bits.
ToUL[c \in -128..32767] ==
    IF c >= 0 THEN <<c, 0, 0, 0>>
    ELSE <<c + Limb, Limb - 1, Limb - 1, Limb - 1>>

\* x + y mod 2^64.
AddUL[x \in UL, y \in UL] ==
    LET t0 == x[1] + y[1]
        t1 == x[2] + y[2] + (t0 \div Limb)
        t2 == x[3] + y[3] + (t1 \div Limb)
        t3 == x[4] + y[4] + (t2 \div Limb)
    IN <<t0 % Limb, t1 % Limb, t2 % Limb, t3 % Limb>>

\* x % m for 0 < m < 2^15.
ModUL[x \in UL, m \in 1..32767] ==
    LET r3 == x[4] % m
        r2 == (r3 * Limb + x[3]) % m
        r1 == (r2 * Limb + x[2]) % m
    IN (r1 * Limb + x[1]) % m

\* `c = *key++` reads a char into an int: with a signed char (x86-64) a
\* byte above 127 is negative.
CharIsSigned == TRUE
CharToInt(b) == IF CharIsSigned /\ b >= 128 THEN b - 256 ELSE b

\* hash = ((hash << 5) + hash) + c
hashStep[acc \in UL, b \in 1..255] == AddUL[Times33[acc], ToUL[CharToInt(b)]]

RECURSIVE hashFrom(_, _, _)
hashFrom(acc, key, i) ==
    IF i > Len(key) THEN acc
    ELSE hashFrom(hashStep[acc, key[i]], key, i + 1)

\* hash(): djb2, starting at 5381.
hash(key) == hashFrom(ToUL[5381], key, 1)

\* A getIndex that narrows the hash to a 32-bit int before the remainder:
\* the remainder of a negative int is negative or zero.
getIndexSigned(key) ==
    LET h == hash(key)
        v == IF h[2] >= Limb \div 2 THEN (h[2] - Limb) * Limb + h[1]
             ELSE h[2] * Limb + h[1]
        r == v % capacity
    IN IF v < 0 /\ r # 0 THEN r - capacity ELSE r

\* getIndex(): hash(key) % ht->capacity, for a positive capacity.
getIndex(key) == ModUL[hash(key), capacity]

(***************************************************************************)
(* Chains.                                                                 *)
(***************************************************************************)
\* A comparison of the first three bytes only.
KeyEqPrefix(n, key) ==
    LET k == strs[nodes[n].key]
    IN \A i \in 1..3 : (i <= Len(k) /\ i <= Len(key) /\ k[i] = key[i])
                        \/ (i > Len(k) /\ i > Len(key))

\* strcmp(node->key, key) == 0
KeyEq(n, key) == strs[nodes[n].key] = key

\* A scan that gives up after the head of the chain.
ScanHeadOnly(cur, prev, key, n) ==
    IF cur = NULL THEN <<NULL, prev, n>>
    ELSE IF strs[nodes[cur].key] = key THEN <<cur, prev, n + 1>>
    ELSE <<NULL, cur, n + 1>>

\* The scan loop of insert, get and delete: <<node, prev, iterations>> where
\* node is the first node of the chain from cur whose key equals key, or
\* NULL when the chain is exhausted.
RECURSIVE Scan(_, _, _, _)
Scan(cur, prev, key, n) ==
    IF cur = NULL THEN <<NULL, prev, n>>
    ELSE IF KeyEq(cur, key) THEN <<cur, prev, n + 1>>
    ELSE Scan(nodes[cur].next, cur, key, n + 1)

Find(index, key) == Scan(array[index], NULL, key, 0)

\* The addresses of a chain's nodes, head first.
RECURSIVE ChainFrom(_, _)
ChainFrom(cur, fuel) ==
    IF cur = NULL \/ fuel = 0 THEN <<>>
    ELSE <<cur>> \o ChainFrom(nodes[cur].next, fuel - 1)

Chain(index) == ChainFrom(array[index], MaxNodes + 1)

Buckets == DOMAIN array

ZeroNode == [key |-> NULL, value |-> NULL, next |-> NULL]
NoCall == [op |-> "none", key |-> <<>>, value |-> NULL, cap |-> 0]

FreeNodes == NodeAddrs \ liveNodes
FreeStrs == StrAddrs \ liveStrs

\* The allocator is first-fit: a successful malloc returns the lowest free
\* address.  Nothing the table does depends on which address it is.
Lowest(S) == CHOOSE a \in S : \A b \in S : a <= b

Init ==
    /\ ht = "null"
    /\ capacity = 0
    /\ array = [i \in {} |-> NULL]
    /\ size = 0
    /\ nodes = [a \in NodeAddrs |-> ZeroNode]
    /\ strs = [a \in StrAddrs |-> <<>>]
    /\ liveNodes = {}
    /\ liveStrs = {}
    /\ blocks = {}
    /\ call = NoCall
    /\ ret = 0
    /\ visited = 0
    /\ allocLog = <<>>
    /\ freeLog = <<>>
    /\ fault = "none"
    /\ shadow = [k \in Keys |-> -1]
    /\ pure = TRUE
    /\ nIns = 0

(***************************************************************************)
(* createHashTable(cap).                                                   *)
(***************************************************************************)
\* Whether malloc(capacity * sizeof(KeyValuePair*)) can return a block: a
\* negative int converts to a size_t above 2^63, which no malloc serves.
\* malloc(0) may return NULL or a block.
ArrayMallocCanSucceed(cap) == cap >= 0

Returned(op, key, value, cap, r, n, allocs, frees) ==
    /\ call' = [op |-> op, key |-> key, value |-> value, cap |-> cap]
    /\ ret' = r
    /\ visited' = n
    /\ allocLog' = allocs
    /\ freeLog' = frees
    /\ fault' = "none"

\* The addresses of one kind ("node", "key") in a log of malloc or free calls.
Freed(log, kind) == {log[i][2] : i \in {j \in DOMAIN log : log[j][1] = kind}}

\* A failure path that returns NULL without free(ht).
TableNotFreed == <<>>

\* What createHashTable frees when the bucket array cannot be obtained.
FreedOnArrayFailure == <<<<"table", 0>>>>

\* The bucket array after the loop that sets every bucket to NULL.
EmptyBuckets(cap) == [i \in 0..(cap - 1) |-> NULL]

Create(cap) ==
    /\ ht = "null"
    /\ fault = "none"
    /\ \/ \* malloc(sizeof(HashTable)) fails
          /\ Returned("create", <<>>, NULL, cap, NULL, 0, <<>>, <<>>)
          /\ UNCHANGED tableVars
       \/ \* the bucket array cannot be obtained: free(ht)
          /\ Returned("create", <<>>, NULL, cap, NULL, 0,
                      <<<<"table", 0>>>>, FreedOnArrayFailure)
          /\ blocks' = {"table"} \ {FreedOnArrayFailure[i][1] :
                                       i \in DOMAIN FreedOnArrayFailure}
          /\ UNCHANGED <<ht, capacity, array, size, nodes, strs, liveNodes,
                         liveStrs>>
       \/ /\ ArrayMallocCanSucceed(cap)
          /\ Returned("create", <<>>, NULL, cap, 1, 0,
                      <<<<"table", 0>>, <<"array", 0>>>>, <<>>)
          /\ ht' = "live"
          /\ capacity' = cap
          /\ size' = 0
          /\ array' = EmptyBuckets(cap)
          /\ blocks' = {"table", "array"}
          /\ UNCHANGED <<nodes, strs, liveNodes, liveStrs>>

(***************************************************************************)
(* insert(ht, key, value).                                                 *)
(***************************************************************************)
\* An update that stores nothing.
UpdateValueDropped(n, value) == nodes

\* current->value = value
UpdateValue(n, value) == [nodes EXCEPT ![n].value = value]

\* A new pair that forgets the chain it is put in front of.
LinkedPairAlone(index, s, value) ==
    [key |-> s, value |-> value, next |-> NULL]

\* A new node linked in front of the first bucket's chain, whatever its own
\* bucket is.
LinkedPairToFirstBucket(index, s, value) ==
    [key |-> s, value |-> value, next |-> array[0]]

\* newPair's fields once it is filled in: the bucket's head follows it.
LinkedPair(index, s, value) ==
    [key |-> s, value |-> value, next |-> array[index]]

\* A new pair that is always made the head of bucket 0.
NewHeadBucketZero(index, n) == [array EXCEPT ![0] = n]

\* ht->array[index] = newPair
NewHead(index, n) == [array EXCEPT ![index] = n]

\* An insert that forgets the counter.
SizeNotIncremented == size

\* ht->size++
SizeAfterInsert == size + 1

\* A strdup failure path that does not free the node.
FreedNothing(n) == <<>>

\* What insert frees when strdup fails, n being the node it had obtained.
FreedOnStrdupFailure(n) == <<<<"node", n>>>>

Insert(key, value) ==
    /\ ht = "live"
    /\ fault = "none"
    /\ capacity > 0
    /\ LET index == getIndex(key)
           found == Find(index, key)
       IN IF found[1] # NULL
          THEN /\ nodes' = UpdateValue(found[1], value)
               /\ Returned("insert", key, value, 0, 1, found[3], <<>>, <<>>)
               /\ UNCHANGED <<ht, capacity, array, size, strs, liveNodes,
                              liveStrs, blocks>>
          ELSE \/ \* malloc(sizeof(KeyValuePair)) fails
                  /\ Returned("insert", key, value, 0, 0, found[3],
                              <<>>, <<>>)
                  /\ UNCHANGED tableVars
               \/ \* strdup(key) fails
                  /\ FreeNodes # {}
                  /\ LET n == Lowest(FreeNodes)
                         frees == FreedOnStrdupFailure(n)
                     IN /\ Returned("insert", key, value, 0, 0, found[3],
                                    <<<<"node", n>>>>, frees)
                        /\ liveNodes' =
                             (liveNodes \cup {n}) \
                               {f[2] : f \in {frees[i] : i \in DOMAIN frees}}
                        /\ UNCHANGED <<ht, capacity, array, size, nodes,
                                       strs, liveStrs, blocks>>
               \/ /\ FreeNodes # {}
                  /\ FreeStrs # {}
                  /\ LET n == Lowest(FreeNodes)
                         s == Lowest(FreeStrs)
                     IN
                     /\ Returned("insert", key, value, 0, 1, found[3],
                                 <<<<"node", n>>, <<"key", s>>>>, <<>>)
                     /\ nodes' = [nodes EXCEPT
                                    ![n] = LinkedPair(index, s, value)]
                     /\ strs' = [strs EXCEPT ![s] = key]
                     /\ array' = NewHead(index, n)
                     /\ size' = SizeAfterInsert
                     /\ liveNodes' = liveNodes \cup {n}
                     /\ liveStrs' = liveStrs \cup {s}
                     /\ UNCHANGED <<ht, capacity, blocks>>

(***************************************************************************)
(* get(ht, key).                                                           *)
(***************************************************************************)
\* A get that returns the value at the head of the bucket, whatever its key.
LookupHeadValue(key) ==
    IF array[getIndex(key)] # NULL THEN nodes[array[getIndex(key)]].value
    ELSE NULL

\* A get whose not-found result is a value of its own, not NULL.
LookupNotFoundDistinct(key) ==
    LET found == Find(getIndex(key), key)
    IN IF found[1] # NULL THEN nodes[found[1]].value ELSE -1

\* What get returns: the value of the first node of the key's bucket whose
\* key equals key, or NULL.
Lookup(key) ==
    LET found == Find(getIndex(key), key)
    IN IF found[1] # NULL THEN nodes[found[1]].value ELSE NULL

\* A get that moves the node it found to the head of its chain.
ChainsMovedToFront(index, cur, prev) ==
    IF cur = NULL \/ prev = NULL THEN <<array, nodes>>
    ELSE <<[array EXCEPT ![index] = cur],
           [nodes EXCEPT ![prev].next = nodes[cur].next,
                         ![cur].next = array[index]]>>

\* <<ht->array, the nodes>> after the scan of get, which found cur behind
\* prev: get writes to neither.
ChainsAfterGet(index, cur, prev) == <<array, nodes>>

Get(key) ==
    /\ ht = "live"
    /\ fault = "none"
    /\ capacity > 0
    /\ LET index == getIndex(key)
           found == Find(index, key)
           after == ChainsAfterGet(index, found[1], found[2])
       IN /\ Returned("get", key, NULL, 0, Lookup(key), found[3],
                      <<>>, <<>>)
          /\ array' = after[1]
          /\ nodes' = after[2]
    /\ UNCHANGED <<ht, capacity, size, strs, liveNodes, liveStrs, blocks>>

(***************************************************************************)
(* delete(ht, key).                                                        *)
(***************************************************************************)
\* An unlinking that always moves the bucket's head.
UnlinkHeadAlways(index, cur, prev) ==
    [array EXCEPT ![index] = nodes[cur].next]

\* An unlinking that writes the new head into bucket 0.
UnlinkHeadBucketZero(index, cur, prev) ==
    IF prev = NULL THEN [array EXCEPT ![0] = nodes[cur].next] ELSE array

\* The bucket array after the unlinking of cur, whose predecessor is prev.
UnlinkHead(index, cur, prev) ==
    IF prev = NULL THEN [array EXCEPT ![index] = nodes[cur].next] ELSE array

\* An unlinking that leaves the predecessor's link as it was.
UnlinkNodeNoRelink(cur, prev) == [nodes EXCEPT ![cur] = ZeroNode]

\* The nodes after the unlinking of cur and free(current): the block's
\* content is gone with it.
UnlinkNode(cur, prev) ==
    IF prev = NULL THEN [nodes EXCEPT ![cur] = ZeroNode]
    ELSE [nodes EXCEPT ![prev].next = nodes[cur].next, ![cur] = ZeroNode]

\* A delete that frees the node and leaves its key string behind.
FreedOnDeleteNodeOnly(cur) == <<<<"node", cur>>>>

\* What delete frees for the node cur it found.
FreedOnDelete(cur) == <<<<"key", nodes[cur].key>>, <<"node", cur>>>>

\* A delete that forgets the counter.
SizeKept == size

\* ht->size--
SizeAfterDelete == size - 1

Delete(key) ==
    /\ ht = "live"
    /\ fault = "none"
    /\ capacity > 0
    /\ LET index == getIndex(key)
           found == Find(index, key)
           cur == found[1]
           prev == found[2]
       IN IF cur # NULL
          THEN /\ array' = UnlinkHead(index, cur, prev)
               /\ nodes' = UnlinkNode(cur, prev)
               /\ strs' = [strs EXCEPT ![nodes[cur].key] = <<>>]
               /\ liveStrs' = liveStrs \ Freed(FreedOnDelete(cur), "key")
               /\ liveNodes' = liveNodes \ Freed(FreedOnDelete(cur), "node")
               /\ size' = SizeAfterDelete
               /\ Returned("delete", key, NULL, 0, 1, found[3], <<>>,
                           FreedOnDelete(cur))
               /\ UNCHANGED <<ht, capacity, blocks>>
          ELSE /\ Returned("delete", key, NULL, 0, 0, found[3], <<>>, <<>>)
               /\ UNCHANGED tableVars

(***************************************************************************)
(* A table of capacity 0 (malloc(0) returned a block): getIndex divides    *)
(* by zero, which is undefined.  The build either traps (x86: SIGFPE) or   *)
(* goes on with a remainder that indexes outside the empty bucket array.   *)
(***************************************************************************)
IndexOfEmptyTable(op, key, value) ==
    /\ ht = "live"
    /\ fault = "none"
    /\ capacity <= 0
    /\ call' = [op |-> op, key |-> key, value |-> value, cap |-> 0]
    /\ \/ fault' = "div0"
       \/ fault' = "oob"
    /\ UNCHANGED <<ret, visited, allocLog, freeLog>>
    /\ UNCHANGED tableVars

(***************************************************************************)
(* freeHashTable(ht).                                                      *)
(***************************************************************************)
\* An inner loop that frees the nodes and not their keys.
RECURSIVE FreedChainNoKey(_, _)
FreedChainNoKey(cur, fuel) ==
    IF cur = NULL \/ fuel = 0 THEN <<>>
    ELSE <<<<"node", cur>>>> \o FreedChainNoKey(nodes[cur].next, fuel - 1)

\* What the inner loop frees for the chain starting at cur.
RECURSIVE FreedChain(_, _)
FreedChain(cur, fuel) ==
    IF cur = NULL \/ fuel = 0 THEN <<>>
    ELSE <<<<"key", nodes[cur].key>>, <<"node", cur>>>>
         \o FreedChain(nodes[cur].next, fuel - 1)

\* What the outer loop frees for buckets i..capacity-1.
RECURSIVE FreedBuckets(_)
FreedBuckets(i) ==
    IF i >= capacity THEN <<>>
    ELSE FreedChain(array[i], 2 * MaxNodes) \o FreedBuckets(i + 1)

\* Every call of free() freeHashTable makes, in order.
FreedOnDestroy == FreedBuckets(0) \o <<<<"array", 0>>, <<"table", 0>>>>

Destroy ==
    /\ ht = "live"
    /\ fault = "none"
    /\ LET frees == FreedOnDestroy
       IN /\ Returned("destroy", <<>>, NULL, 0, 0, 0, <<>>, frees)
          /\ liveNodes' = liveNodes \ Freed(frees, "node")
          /\ liveStrs' = liveStrs \ Freed(frees, "key")
          /\ blocks' = blocks \ {frees[i][1] : i \in DOMAIN frees}
          /\ nodes' = [a \in NodeAddrs |->
                         IF a \in Freed(frees, "node") THEN ZeroNode
                         ELSE nodes[a]]
          /\ strs' = [a \in StrAddrs |->
                        IF a \in Freed(frees, "key") THEN <<>> ELSE strs[a]]
    /\ ht' = "dangling"
    /\ capacity' = 0
    /\ size' = 0
    /\ array' = [i \in {} |-> NULL]

\* freeHashTable(NULL) returns at once.
DestroyNull ==
    /\ ht = "null"
    /\ fault = "none"
    /\ Returned("destroy", <<>>, NULL, 0, 0, 0, <<>>, <<>>)
    /\ UNCHANGED tableVars

\* freeHashTable(ht) on a handle that was destroyed before: ht is not NULL,
\* so the code reads ht->capacity and ht->array from the released table
\* block, which is undefined.  The process either dies on what it reads
\* there, or gets as far as releasing the array and the table once more.
DestroyAgain ==
    /\ ht = "dangling"
    /\ fault = "none"
    /\ call' = [op |-> "destroy", key |-> <<>>, value |-> NULL, cap |-> 0]
    /\ \/ /\ fault' = "use-after-free"
          /\ freeLog' = <<>>
       \/ /\ fault' = "double-free"
          /\ freeLog' = <<<<"array", 0>>, <<"table", 0>>>>
    /\ ret' = 0
    /\ visited' = 0
    /\ allocLog' = <<>>
    /\ UNCHANGED tableVars

(***************************************************************************)
(* History variables: what the callers have asked for so far.  They record *)
(* the calls and their results and are read by no operation of the table.  *)
(***************************************************************************)
HistReset == shadow' = [k \in Keys |-> -1] /\ pure' = TRUE /\ nIns' = 0

HistInsert(key, value) ==
    /\ shadow' = IF ret' = 1 THEN [shadow EXCEPT ![key] = value]
                 ELSE IF shadow[key] = value THEN shadow
                 ELSE [shadow EXCEPT ![key] = -1]
    /\ pure' = (pure /\ (ret' = 0 \/ shadow[key] = -1))
    /\ nIns' = IF ~pure' THEN 0 ELSE IF ret' = 1 THEN nIns + 1 ELSE nIns

HistDelete(key) ==
    /\ shadow' = [shadow EXCEPT ![key] = -1]
    /\ pure' = FALSE
    /\ nIns' = 0

Next ==
    \/ \E cap \in Capacities : Create(cap) /\ HistReset
    \/ \E key \in Keys, value \in Vals :
          Insert(key, value) /\ HistInsert(key, value)
    \/ \E key \in Keys : Get(key) /\ UNCHANGED histVars
    \/ \E key \in Keys : Delete(key) /\ HistDelete(key)
    \/ \E key \in Keys, value \in Vals :
          IndexOfEmptyTable("insert", key, value) /\ UNCHANGED histVars
    \/ \E key \in Keys, op \in {"get", "delete"} :
          IndexOfEmptyTable(op, key, NULL) /\ UNCHANGED histVars
    \/ Destroy /\ UNCHANGED histVars
    \/ DestroyNull /\ UNCHANGED histVars
    \/ DestroyAgain /\ UNCHANGED histVars

Spec == Init /\ [][Next]_vars

(***************************************************************************)
(* hash and getIndex on their own: a table of some positive capacity, and  *)
(* calls of hash(key) and getIndex(ht, key) for every key of up to         *)
(* MaxKeyLen bytes over HashBytes.                                         *)
(***************************************************************************)
\* 'a', and a byte above 127.
HashBytes == {97, 200}

HashCapacities == {1, 2, 3, 7, 10}

InitHash ==
    /\ ht = "live"
    /\ capacity \in HashCapacities
    /\ array = [i \in 0..(capacity - 1) |-> NULL]
    /\ size = 0
    /\ nodes = [a \in NodeAddrs |-> ZeroNode]
    /\ strs = [a \in StrAddrs |-> <<>>]
    /\ liveNodes = {}
    /\ liveStrs = {}
    /\ blocks = {"table", "array"}
    /\ call = [op |-> "hash", key |-> <<>>, value |-> NULL, cap |-> 0]
    /\ ret = hash(<<>>)
    /\ visited = 0
    /\ allocLog = <<>>
    /\ freeLog = <<>>
    /\ fault = "none"
    /\ shadow = [k \in Keys |-> -1]
    /\ pure = TRUE
    /\ nIns = 0

\* hash(key)
HashCall(key) ==
    /\ Len(key) <= MaxKeyLen
    /\ call' = [op |-> "hash", key |-> key, value |-> NULL, cap |-> 0]
    /\ ret' = hash(key)
    /\ UNCHANGED <<tableVars, visited, allocLog, freeLog, fault, histVars>>

\* getIndex(ht, key), for the key last hashed
GetIndexCall ==
    /\ call.op = "hash"
    /\ call' = [call EXCEPT !.op = "getIndex"]
    /\ ret' = getIndex(call.key)
    /\ UNCHANGED <<tableVars, visited, allocLog, freeLog, fault, histVars>>

NextHash ==
    \/ \E b \in HashBytes : HashCall(Append(call.key, b))
    \/ GetIndexCall

SpecHash == InitHash /\ [][NextHash]_vars

(***************************************************************************)
(* What the properties below speak of.                                     *)
(***************************************************************************)
\* The entries of the table: <<bucket, position in its chain>>.
Entries == {<<i, j>> : i \in Buckets, j \in 1..MaxNodes} \cap
           UNION {{<<i, j>> : j \in DOMAIN Chain(i)} : i \in Buckets}

EntryNode(e) == Chain(e[1])[e[2]]
EntryKey(e) == strs[nodes[EntryNode(e)].key]
EntryValue(e) == nodes[EntryNode(e)].value

\* Whether some entry of the table has this key.
Holds(key) == \E e \in Entries : EntryKey(e) = key

\* The keys of a bucket's chain, head first.
ChainKeys(i) == [j \in DOMAIN Chain(i) |-> strs[nodes[Chain(i)[j]].key]]

RECURSIVE SumLen(_)
SumLen(i) == IF i >= capacity THEN 0 ELSE Len(Chain(i)) + SumLen(i + 1)

\* The number of nodes reachable from the buckets.
EntryCount == SumLen(0)

Usable == ht = "live" /\ capacity > 0
Range(f) == {f[i] : i \in DOMAIN f}
NoDuplicates(f) == \A i, j \in DOMAIN f : f[i] = f[j] => i = j

(***************************************************************************)
(* C1: while a key's last successful insert stands (no delete of it, no    *)
(* insert of it with another value since), get returns the value that      *)
(* insert stored, whatever was done to other keys, colliding ones          *)
(* included.                                                               *)
(***************************************************************************)
C1_GetReturnsLastInserted ==
    /\ Usable => \A k \in Keys : shadow[k] # -1 => Lookup(k) = shadow[k]
    /\ (call.op = "get" /\ fault = "none" /\ shadow[call.key] # -1)
          => ret = shadow[call.key]

\* get found a non-null value behind a colliding key inserted after it.
C1_Witness ==
    /\ call.op = "get"
    /\ fault = "none"
    /\ shadow[call.key] # -1
    /\ ret = shadow[call.key]
    /\ ret # NULL
    /\ visited >= 2

(***************************************************************************)
(* C2: insert of a key the table holds returns success, keeps the size,    *)
(* makes get return the new value, creates no entry and leaves every       *)
(* entry's key and chain position as they were.                            *)
(***************************************************************************)
C2_InsertExistingReplacesInPlace ==
    /\ []((call.op = "insert" /\ fault = "none" /\ ret = 1)
             => Lookup(call.key) = call.value)
    /\ [][\A k \in Keys :
       (call'.op = "insert" /\ call'.key = k /\ Usable /\ Holds(k)) =>
          /\ ret' = 1
          /\ size' = size
          /\ allocLog' = <<>>
          /\ liveNodes' = liveNodes
          /\ liveStrs' = liveStrs
          /\ array' = array
          /\ strs' = strs
          /\ \A i \in Buckets : Chain(i)' = Chain(i)
          /\ \A a \in NodeAddrs : /\ nodes'[a].key = nodes[a].key
                                  /\ nodes'[a].next = nodes[a].next]_vars

\* An insert replaced the value of a key found second in its chain.
C2_Witness ==
    /\ call.op = "insert"
    /\ fault = "none"
    /\ ret = 1
    /\ allocLog = <<>>
    /\ visited = 2
    /\ Lookup(call.key) = call.value
    /\ size >= 2

(***************************************************************************)
(* C3: delete of a key the table holds returns removed, takes exactly one  *)
(* off the size, and get no longer finds the key, wherever in its chain    *)
(* the entry was.                                                          *)
(***************************************************************************)
C3_DeletePresentRemoves ==
    /\ []((call.op = "delete" /\ fault = "none" /\ ret = 1)
             => Lookup(call.key) = NULL)
    /\ [][\A k \in Keys :
       (call'.op = "delete" /\ call'.key = k /\ Usable /\ Holds(k)) =>
          /\ ret' = 1
          /\ size' = size - 1
          /\ ~Holds(k)']_vars

\* A delete removed the middle node of a chain of three.
C3_Witness ==
    /\ call.op = "delete"
    /\ fault = "none"
    /\ ret = 1
    /\ visited = 2
    /\ size = 2
    /\ \E i \in Buckets : Len(Chain(i)) = 2

(***************************************************************************)
(* C4: delete of a key the table does not hold returns not-found and       *)
(* changes nothing of the table.                                           *)
(***************************************************************************)
C4_DeleteAbsentChangesNothing ==
    [][(call'.op = "delete" /\ Usable /\ ~Holds(call'.key)) =>
          /\ ret' = 0
          /\ freeLog' = <<>>
          /\ UNCHANGED tableVars]_vars

\* A delete missed in a bucket that holds two colliding keys.
C4_Witness ==
    /\ call.op = "delete"
    /\ fault = "none"
    /\ ret = 0
    /\ visited = 2
    /\ size >= 2

(***************************************************************************)
(* C5: no two entries of the table have the same key.                      *)
(***************************************************************************)
C5_KeysUnique ==
    \A e1, e2 \in Entries : EntryKey(e1) = EntryKey(e2) => e1 = e2

\* An insert of a stored key, found behind a colliding one, in a table of
\* three entries.
C5_Witness ==
    /\ call.op = "insert"
    /\ fault = "none"
    /\ ret = 1
    /\ allocLog = <<>>
    /\ visited >= 2
    /\ Cardinality(Entries) = 3

(***************************************************************************)
(* C6: the size field is the number of nodes reachable from the buckets,   *)
(* and is not negative.                                                    *)
(***************************************************************************)
C6_SizeCountsEntries ==
    ht = "live" => (size = EntryCount /\ size >= 0)

\* A delete of an absent key after a table of two entries.
C6_Witness ==
    /\ call.op = "delete"
    /\ fault = "none"
    /\ ret = 0
    /\ size = 2
    /\ EntryCount = 2

(***************************************************************************)
(* C7: after N successful inserts of distinct keys into a fresh table the  *)
(* size is N and get returns each key's own value, whatever the capacity.  *)
(***************************************************************************)
C7_DistinctInsertsAllKept ==
    (Usable /\ pure) =>
        /\ size = nIns
        /\ Cardinality({k \in Keys : shadow[k] # -1}) = nIns
        /\ \A k \in Keys : shadow[k] # -1 => Lookup(k) = shadow[k]
        /\ \A k \in Keys : shadow[k] # -1 => Holds(k)

\* Three keys in a fresh table of one bucket.
C7_Witness ==
    /\ Usable
    /\ pure
    /\ nIns = 3
    /\ capacity = 1
    /\ call.op = "insert"
    /\ ret = 1
    /\ size = 3

(***************************************************************************)
(* C8: an insert of a new key that did not obtain both the node and the    *)
(* key copy returns failure; an insert that returns failure leaves the     *)
(* table as it was, and every block it obtained is freed again.            *)
(***************************************************************************)
C8_FailedInsertChangesNothing ==
    [][\A k \in Keys :
       (call'.op = "insert" /\ call'.key = k /\ Usable) =>
          /\ (~Holds(k) /\ Len(allocLog') < 2) => ret' = 0
          /\ ret' = 0 =>
                /\ UNCHANGED tableVars
                /\ Range(allocLog') \subseteq Range(freeLog')]_vars

\* strdup failed on a table of two entries: the node was obtained and freed.
C8_Witness ==
    /\ call.op = "insert"
    /\ fault = "none"
    /\ ret = 0
    /\ Len(allocLog) = 1
    /\ allocLog = freeLog
    /\ size = 2

(***************************************************************************)
(* C9: a capacity <= 0 yields no table, so no bucket index is ever taken   *)
(* modulo a non-positive capacity.                                         *)
(***************************************************************************)
C9_NonPositiveCapacityRejected ==
    /\ (call.op = "create" /\ call.cap <= 0) => ret = NULL
    /\ ht = "live" => capacity > 0
    /\ fault = "none"

(***************************************************************************)
(* C10: destroy frees every entry's key and then its node, exactly once,   *)
(* then the bucket array, then the table; nothing the table owned stays    *)
(* live, nothing is freed twice, and no value is freed.                    *)
(***************************************************************************)
C10_DestroyReleasesAllOnce ==
    [][(call'.op = "destroy" /\ ht = "live") =>
          /\ NoDuplicates(freeLog')
          /\ Len(freeLog') = 2 * size + 2
          /\ \A i \in 1..size :
                /\ freeLog'[2 * i - 1][1] = "key"
                /\ freeLog'[2 * i][1] = "node"
                /\ nodes[freeLog'[2 * i][2]].key = freeLog'[2 * i - 1][2]
          /\ freeLog'[2 * size + 1] = <<"array", 0>>
          /\ freeLog'[2 * size + 2] = <<"table", 0>>
          /\ {f[2] : f \in {g \in Range(freeLog') : g[1] = "node"}}
                = liveNodes
          /\ {f[2] : f \in {g \in Range(freeLog') : g[1] = "key"}}
                = liveStrs
          /\ liveNodes' = {}
          /\ liveStrs' = {}
          /\ blocks' = {}]_vars

\* A table of three entries was destroyed.
C10_Witness ==
    /\ call.op = "destroy"
    /\ ht = "dangling"
    /\ Len(freeLog) = 8

(***************************************************************************)
(* C11: destroy on a null handle, and on a handle destroyed before, is a   *)
(* no-op: it frees nothing, reads no released storage and changes nothing. *)
(***************************************************************************)
C11_DestroyIdempotent ==
    [][(call'.op = "destroy" /\ ht # "live") =>
          /\ fault' = "none"
          /\ freeLog' = <<>>
          /\ UNCHANGED tableVars]_vars

(***************************************************************************)
(* A second computation of djb2, on eight base-256 digits, least           *)
(* significant first, each byte of the key taken as its value 0..255.      *)
(***************************************************************************)
RefDigits == [1..8 -> 0..255]

RefStep[acc \in RefDigits, c \in 0..255] ==
    LET t1 == acc[1] * 33 + c
        t2 == acc[2] * 33 + (t1 \div 256)
        t3 == acc[3] * 33 + (t2 \div 256)
        t4 == acc[4] * 33 + (t3 \div 256)
        t5 == acc[5] * 33 + (t4 \div 256)
        t6 == acc[6] * 33 + (t5 \div 256)
        t7 == acc[7] * 33 + (t6 \div 256)
        t8 == acc[8] * 33 + (t7 \div 256)
    IN <<t1 % 256, t2 % 256, t3 % 256, t4 % 256,
         t5 % 256, t6 % 256, t7 % 256, t8 % 256>>

RECURSIVE RefHashFrom(_, _, _)
RefHashFrom(acc, key, i) ==
    IF i > Len(key) THEN acc
    ELSE RefHashFrom(RefStep[acc, key[i]], key, i + 1)

\* 5381 = 21 * 256 + 5
RefHash(key) == RefHashFrom(<<5, 21, 0, 0, 0, 0, 0, 0>>, key, 1)

\* Whether the limbs h and the digits r are the same number.
SameValue(h, r) == \A i \in 1..4 : h[i] = r[2 * i - 1] + 256 * r[2 * i]

(***************************************************************************)
(* C12: hash("") = 5381 and hash(key) is the fold acc = (acc * 33 + c)     *)
(* mod 2^64 from 5381 over the bytes of the key, each taken as its         *)
(* unsigned value.                                                         *)
(***************************************************************************)
C12_HashIsUnsignedDjb2 ==
    /\ hash(<<>>) = <<5381, 0, 0, 0>>
    /\ call.op = "hash" => SameValue(ret, RefHash(call.key))

(***************************************************************************)
(* C13: a create that did not obtain both blocks returns NULL, yields no   *)
(* table and leaves nothing allocated (the table block is freed when the   *)
(* bucket array fails); a create that returns a table gives it capacity    *)
(* buckets, all empty, and size 0.                                         *)
(***************************************************************************)
C13_CreateAllOrNothing ==
    call.op = "create" =>
       /\ Len(allocLog) < 2 => ret = NULL
       /\ ret = NULL =>
             /\ ht = "null"
             /\ blocks = {}
             /\ liveNodes = {}
             /\ liveStrs = {}
             /\ Range(allocLog) \subseteq Range(freeLog)
       /\ ret # NULL =>
             /\ ht = "live"
             /\ capacity = call.cap
             /\ DOMAIN array = 0..(call.cap - 1)
             /\ \A i \in DOMAIN array : array[i] = NULL
             /\ size = 0
             /\ blocks = {"table", "array"}
             /\ freeLog = <<>>

\* The bucket array of a table of two buckets could not be obtained.
C13_Witness ==
    /\ call.op = "create"
    /\ call.cap = 2
    /\ ret = NULL
    /\ allocLog = <<<<"table", 0>>>>
    /\ freeLog = <<<<"table", 0>>>>

\* The buckets from which node a is reachable.
BucketsOf(a) == {i \in Buckets : \E j \in DOMAIN Chain(i) : Chain(i)[j] = a}

(***************************************************************************)
(* C14: while the table lives, no call changes the capacity field or the   *)
(* length of the bucket array, and no entry moves to another bucket.       *)
(***************************************************************************)
C14_CapacityFixed ==
    [][(ht = "live" /\ ht' = "live") =>
          /\ capacity' = capacity
          /\ DOMAIN array' = DOMAIN array
          /\ \A a \in liveNodes \cap liveNodes' :
                BucketsOf(a)' = BucketsOf(a)]_vars

\* A third entry went into a table of two buckets.
C14_Witness ==
    /\ call.op = "insert"
    /\ fault = "none"
    /\ ret = 1
    /\ Len(allocLog) = 2
    /\ size = 3
    /\ capacity = 2
    /\ DOMAIN array = 0..1

(***************************************************************************)
(* C15: every entry of bucket b has a key whose hash modulo the capacity   *)
(* is b, so a key is held by no bucket but the one its hash selects.       *)
(***************************************************************************)
C15_EntriesInTheirBucket ==
    Usable =>
       /\ \A e \in Entries : getIndex(EntryKey(e)) = e[1]
       /\ \A k \in Keys : \A i \in Buckets :
             (\E j \in DOMAIN Chain(i) : ChainKeys(i)[j] = k)
                => i = getIndex(k)

\* Two buckets in use, one of them with a chain of two; get went through it.
C15_Witness ==
    /\ Usable
    /\ capacity = 2
    /\ Len(Chain(0)) = 1
    /\ Len(Chain(1)) = 2
    /\ call.op = "get"
    /\ visited = 2

(***************************************************************************)
(* C16: a successful insert of a key the table does not hold puts the new  *)
(* entry at the head of the key's bucket, the bucket's previous chain      *)
(* behind it in the same order, adds exactly one to the size, and leaves   *)
(* every other bucket and every existing entry's key and value alone.      *)
(***************************************************************************)
C16_InsertNewLinksAtHead ==
    [][\A k \in Keys : \A i \in Buckets :
       (/\ call'.op = "insert"
        /\ call'.key = k
        /\ Usable
        /\ ~Holds(k)
        /\ ret' = 1
        /\ i = getIndex(k)) =>
          /\ Len(Chain(i)') = Len(Chain(i)) + 1
          /\ Tail(Chain(i)') = Chain(i)
          /\ Head(Chain(i)') \notin liveNodes
          /\ Head(ChainKeys(i)') = k
          /\ nodes'[Head(Chain(i)')].value = call'.value
          /\ size' = size + 1
          /\ \A j \in Buckets \ {i} : Chain(j)' = Chain(j)
          /\ \A a \in liveNodes : nodes'[a] = nodes[a]
          /\ \A a \in liveStrs : strs'[a] = strs[a]
          /\ liveNodes \subseteq liveNodes'
          /\ liveStrs \subseteq liveStrs']_vars

\* A new key went in front of a colliding entry while the other bucket of
\* the table holds an entry too.
C16_Witness ==
    /\ call.op = "insert"
    /\ fault = "none"
    /\ ret = 1
    /\ Len(allocLog) = 2
    /\ visited = 1
    /\ capacity = 2
    /\ Len(Chain(1)) = 2
    /\ Len(Chain(0)) = 1

(***************************************************************************)
(* C17: delete of a held key removes the one entry with that key: the      *)
(* rest of its bucket keeps order, keys and values, a bucket left without  *)
(* entries is NULL, and every other bucket is unchanged.                   *)
(***************************************************************************)
C17_DeleteRemovesExactlyOne ==
    [][\A k \in Keys : \A i \in Buckets :
       (/\ call'.op = "delete"
        /\ call'.key = k
        /\ Usable
        /\ Holds(k)
        /\ i = getIndex(k)) =>
          /\ Chain(i)' = SelectSeq(Chain(i), LAMBDA a : strs[nodes[a].key] # k)
          /\ Len(Chain(i)') = Len(Chain(i)) - 1
          /\ Len(Chain(i)) = 1 => array'[i] = NULL
          /\ \A j \in Buckets \ {i} :
                array'[j] = array[j] /\ Chain(j)' = Chain(j)
          /\ Cardinality(liveNodes \ liveNodes') = 1
          /\ liveNodes' \subseteq liveNodes
          /\ \A a \in liveNodes' :
                /\ nodes'[a].key = nodes[a].key
                /\ nodes'[a].value = nodes[a].value
                /\ strs'[nodes'[a].key] = strs[nodes[a].key]]_vars

\* The head of a chain of three was removed.
C17_Witness ==
    /\ call.op = "delete"
    /\ fault = "none"
    /\ ret = 1
    /\ visited = 1
    /\ capacity = 1
    /\ Len(Chain(0)) = 2
    /\ array[0] # NULL

(***************************************************************************)
(* C18: the table refines a finite map.  The map is the history variable   *)
(* shadow (a successful insert sets the key, a delete removes it, -1       *)
(* stands for "not in the domain").  get returns the map's value or        *)
(* not-found, delete returns removed exactly for the keys of the domain,   *)
(* a failed insert leaves the map alone, and size is the cardinality of    *)
(* the domain.                                                             *)
(***************************************************************************)
MapDomain == {k \in Keys : shadow[k] # -1}
MapGet(k) == IF k \in MapDomain THEN shadow[k] ELSE NULL

C18_RefinesFiniteMap ==
    /\ [](Usable =>
            /\ \A k \in Keys : Lookup(k) = MapGet(k)
            /\ \A k \in Keys : Holds(k) <=> k \in MapDomain
            /\ size = Cardinality(MapDomain))
    /\ []((call.op = "get" /\ fault = "none") => ret = MapGet(call.key))
    /\ [][(call'.op = "delete" /\ Usable) =>
             (ret' = 1 <=> call'.key \in MapDomain)]_vars
    /\ [][(call'.op = "insert" /\ Usable /\ ret' = 0) =>
             shadow' = shadow]_vars

\* get missed a key outside the domain in a bucket of two colliding entries.
C18_Witness ==
    /\ call.op = "get"
    /\ fault = "none"
    /\ call.key \notin MapDomain
    /\ ret = NULL
    /\ visited = 2
    /\ size = 2
    /\ \A k \in MapDomain : shadow[k] # NULL

(***************************************************************************)
(* C19: in a live table the nodes and key strings allocated and not yet    *)
(* freed are exactly those reachable from the buckets, and no freed node   *)
(* is linked.  insert of a new key allocates one node and one key string,  *)
(* insert of a held key allocates nothing, delete of a held key frees that *)
(* entry's key string and node, get and delete of a missing key allocate   *)
(* and free nothing.  A failed insert leaves the live allocations as they  *)
(* were: whatever it allocated it freed again before it returned.          *)
(***************************************************************************)
ReachableNodes == UNION {Range(Chain(i)) : i \in Buckets}
ReachableStrs == {nodes[n].key : n \in ReachableNodes}

LiveIsReachable ==
    ht = "live" =>
      /\ liveNodes = ReachableNodes
      /\ liveStrs = ReachableStrs
      /\ Cardinality(liveStrs) = Cardinality(liveNodes)
      /\ \A i \in Buckets : array[i] \in liveNodes \cup {NULL}
      /\ \A n \in liveNodes : nodes[n].next \in liveNodes \cup {NULL}
      /\ \A n \in liveNodes : nodes[n].key \in liveStrs

\* The node that holds key k, as a set (empty when no entry has the key).
NodesOf(k) == {n \in ReachableNodes : strs[nodes[n].key] = k}

\* What a step of insert, get or delete allocates and frees when it does
\* not fail.
OperationAllocations ==
    (Usable /\ fault' = "none") =>
      /\ (call'.op = "insert" /\ ret' = 1 /\ ~Holds(call'.key)) =>
            /\ Len(allocLog') = 2
            /\ Cardinality(Freed(allocLog', "node")) = 1
            /\ Cardinality(Freed(allocLog', "key")) = 1
            /\ Freed(allocLog', "node") \cap liveNodes = {}
            /\ Freed(allocLog', "key") \cap liveStrs = {}
            /\ freeLog' = <<>>
            /\ liveNodes' = liveNodes \cup Freed(allocLog', "node")
            /\ liveStrs' = liveStrs \cup Freed(allocLog', "key")
      /\ (call'.op = "insert" /\ Holds(call'.key)) =>
            /\ ret' = 1
            /\ allocLog' = <<>> /\ freeLog' = <<>>
            /\ liveNodes' = liveNodes /\ liveStrs' = liveStrs
      /\ (call'.op = "delete" /\ Holds(call'.key)) =>
            /\ ret' = 1
            /\ allocLog' = <<>>
            /\ Len(freeLog') = 2
            /\ Freed(freeLog', "node") = NodesOf(call'.key)
            /\ Freed(freeLog', "key") =
                 {nodes[n].key : n \in NodesOf(call'.key)}
            /\ liveNodes' = liveNodes \ Freed(freeLog', "node")
            /\ liveStrs' = liveStrs \ Freed(freeLog', "key")
      /\ (call'.op = "get" \/ (call'.op = "delete" /\ ~Holds(call'.key))) =>
            /\ allocLog' = <<>> /\ freeLog' = <<>>
            /\ liveNodes' = liveNodes /\ liveStrs' = liveStrs

FailedInsert == Usable /\ fault' = "none" /\ call'.op = "insert" /\ ret' = 0

\* As the claim words it: a failed insert calls neither malloc nor free.
FailedInsertAllocatesNothing ==
    FailedInsert => allocLog' = <<>> /\ freeLog' = <<>>

\* A failed insert frees what it allocated.
FailedInsertKeepsNothing ==
    FailedInsert =>
      /\ Range(allocLog') = Range(freeLog')
      /\ Len(allocLog') = Len(freeLog')
      /\ liveNodes' = liveNodes /\ liveStrs' = liveStrs

\* C19 as stated: a failed operation allocates and releases nothing.
C19_FailedOperationsAllocateNothing ==
    /\ [](LiveIsReachable)
    /\ [][OperationAllocations /\ FailedInsertAllocatesNothing]_vars

\* C19 as the code has it: a failed insert may allocate the node and free
\* it again when the key copy fails; the live allocations stay the
\* reachable ones.
C19_LiveAllocationsAreReachable ==
    /\ [](LiveIsReachable)
    /\ [][OperationAllocations /\ FailedInsertKeepsNothing]_vars

\* An insert failed on the key copy next to two entries in one chain: it
\* had allocated a node and freed it.
C19_Witness ==
    /\ Usable
    /\ call.op = "insert"
    /\ fault = "none"
    /\ ret = 0
    /\ Len(allocLog) = 1
    /\ freeLog = allocLog
    /\ \E i \in Buckets : Len(Chain(i)) = 2
    /\ liveNodes = ReachableNodes

(***************************************************************************)
(* C20: for a positive capacity, getIndex(key) is the remainder of the     *)
(* unsigned 64-bit hash(key) by capacity: it lies in 0..capacity-1, inside *)
(* the bucket array, also for a hash that wrapped around 2^64 or that is   *)
(* above the largest signed int.  The remainder is computed a second way   *)
(* here, from the residues of the powers of 2^16.                          *)
(***************************************************************************)
RefMod(x, m) ==
    LET p1 == Limb % m
        p2 == (p1 * p1) % m
        p3 == (p2 * p1) % m
    IN ((x[1] % m) + (x[2] % m) * p1 + (x[3] % m) * p2 + (x[4] % m) * p3) % m

C20_IndexIsUnsignedRemainder ==
    (call.op = "getIndex" /\ capacity > 0) =>
       /\ ret = RefMod(hash(call.key), capacity)
       /\ ret \in 0..(capacity - 1)
       /\ ret \in DOMAIN array

\* getIndex of a key long enough for the accumulator to have wrapped, whose
\* hash has bit 31 and bits above 47 set, gave a bucket other than the first.
C20_Witness ==
    /\ call.op = "getIndex"
    /\ Len(call.key) = MaxKeyLen
    /\ hash(call.key)[2] >= Limb \div 2
    /\ hash(call.key)[4] > 0
    /\ capacity > 2
    /\ ret = capacity - 1

(***************************************************************************)
(* C21: get answers NULL both for a key that is not stored and for a key   *)
(* stored with the value NULL: after a successful insert(k, NULL), get(k)  *)
(* returns what it returns for an absent key, while the table holds k,     *)
(* size counts it and delete(k) returns 1.  For a key stored with a value  *)
(* other than NULL, get never returns NULL.                                *)
(***************************************************************************)
StoredNull == {k \in Keys : shadow[k] = NULL}
StoredNonNull == {k \in Keys : shadow[k] \notin {-1, NULL}}
Absent == {k \in Keys : shadow[k] = -1}

C21_NullValueLooksAbsent ==
    /\ [](Usable =>
            /\ \A k \in StoredNull : \A j \in Absent : Lookup(k) = Lookup(j)
            /\ \A k \in StoredNull : Lookup(k) = NULL /\ Holds(k)
            /\ \A j \in Absent : Lookup(j) = NULL /\ ~Holds(j)
            /\ \A k \in StoredNonNull : Lookup(k) # NULL
            /\ size = Cardinality(StoredNull) + Cardinality(StoredNonNull))
    /\ []((call.op = "get" /\ fault = "none") =>
            (ret = NULL <=> call.key \notin StoredNonNull))
    /\ [][(call'.op = "delete" /\ Usable /\ call'.key \in StoredNull) =>
             ret' = 1]_vars

\* get returned NULL for a key stored with NULL, found behind a colliding
\* entry, while another key is absent.
C21_Witness ==
    /\ call.op = "get"
    /\ fault = "none"
    /\ call.key \in StoredNull
    /\ Holds(call.key)
    /\ ret = NULL
    /\ visited = 2
    /\ size = 2
    /\ Absent # {}

(***************************************************************************)
(* C22: get changes nothing in the table: size, capacity, the bucket       *)
(* array, every node (key, value, next link, hence the order of every      *)
(* chain) and every key string are the same after get as before it, for a  *)
(* key that is stored and for one that is not; and a second get of the     *)
(* same key returns what the first returned.                               *)
(***************************************************************************)
C22_GetChangesNothing ==
    /\ [][call'.op = "get" =>
             /\ size' = size
             /\ capacity' = capacity
             /\ array' = array
             /\ nodes' = nodes
             /\ strs' = strs
             /\ UNCHANGED <<ht, liveNodes, liveStrs, blocks, shadow>>]_vars
    /\ []((call.op = "get" /\ fault = "none") => ret = Lookup(call.key))

\* get found its key with a non-null value at the second place of a chain
\* of three.
C22_Witness ==
    /\ call.op = "get"
    /\ fault = "none"
    /\ Holds(call.key)
    /\ ret # NULL
    /\ visited = 2
    /\ \E i \in Buckets : Len(Chain(i)) = 3
    /\ size = 3

(***************************************************************************)
(* C23: every bucket's chain is a finite list that ends in NULL without    *)
(* passing twice through a node, and no node is in two chains; so the scan *)
(* of insert, get and delete visits at most as many nodes as its bucket's  *)
(* chain has, which is at most size, and the walk of freeHashTable frees   *)
(* each of the size entries once.                                          *)
(***************************************************************************)
RECURSIVE EndsInNull(_, _)
EndsInNull(cur, fuel) ==
    IF cur = NULL THEN TRUE
    ELSE IF fuel = 0 THEN FALSE
    ELSE EndsInNull(nodes[cur].next, fuel - 1)

WellFormedChains ==
    /\ \A i \in Buckets : EndsInNull(array[i], MaxNodes)
    /\ \A i \in Buckets : NoDuplicates(Chain(i))
    /\ \A i \in Buckets : Len(Chain(i)) <= size
    /\ \A i, j \in Buckets :
          i # j => Range(Chain(i)) \cap Range(Chain(j)) = {}

C23_ChainsAcyclicScansBounded ==
    /\ [](ht = "live" => WellFormedChains)
    /\ [][(Usable /\ fault' = "none"
             /\ call'.op \in {"insert", "get", "delete"}) =>
             /\ visited' <= Len(Chain(getIndex(call'.key)))
             /\ visited' <= size]_vars
    /\ [][(ht = "live" /\ fault = "none" /\ call'.op = "destroy") =>
             /\ Len(freeLog') = 2 * size + 2
             /\ Cardinality(Range(freeLog')) = Len(freeLog')]_vars

\* delete found its key at the end of a chain that held every entry of the
\* table: the scan visited as many nodes as size was.
C23_Witness ==
    /\ call.op = "delete"
    /\ fault = "none"
    /\ ret = 1
    /\ visited = 3
    /\ size = 2
    /\ \E i \in Buckets : Len(Chain(i)) = 2

=============================================================================
